---- MODULE Spec2Model ----
(***************************************************************************)
(* Model of gui/qt/network_dialog.py (Electron Cash SLP): the network      *)
(* settings dialog.  The state is the dialog's widgets (NetworkChoice-     *)
(* Layout), the network object it talks to (parameters, trust sets,        *)
(* active interface) and a log of the calls the last handler made to the   *)
(* network object.  One action per handler; a handler that ends in         *)
(* self.update() includes that refresh.                                    *)
(*                                                                         *)
(* Strings are modelled as tokens.  A canonical server string              *)
(* "host:port:letter" is the token sequence <<host, ":", port, ":",        *)
(* letter>>.                                                               *)
(***************************************************************************)
EXTENDS Integers, Sequences, FiniteSets, TLC

VARIABLES
    \* ---- the network object (electroncash.network.Network) ----
    net,                  \* get_parameters(): host, port, protocol, proxy, auto_connect
    interface,            \* network.interface: the active server, or None
    blacklisted_servers,  \* network.blacklisted_servers
    whitelisted_servers,  \* network.whitelisted_servers
    whitelist_only,       \* network.is_whitelist_only()
    \* ---- the configuration store ----
    locked,               \* keys for which config.is_modifiable(key) is False
    \* ---- NetworkChoiceLayout widgets ----
    server_host,          \* server_host.text()
    server_port,          \* server_port.text()
    focus,                \* which of the two line edits hasFocus(): "none", "host", "port"
    fields_enabled,       \* server_host / server_port isEnabled()
    ssl_cb,               \* ssl_cb.isChecked()
    ssl_enabled,          \* ssl_cb.isEnabled()
    autoconnect_cb,       \* autoconnect_cb.isChecked()
    autoconnect_enabled,  \* autoconnect_cb.isEnabled()
    preferred_only_cb,    \* preferred_only_cb.isChecked()
    tor_cb,               \* tor_cb.isChecked()
    tor_enabled,          \* tor_cb.isEnabled()
    tor_proxy,            \* self.tor_proxy: the detected Tor port, or NoPort
    proxy_cb,             \* proxy_cb.isChecked()
    proxy_mode,           \* proxy_mode.currentText()
    proxy_host,           \* proxy_host.text()
    proxy_port,           \* proxy_port.text()
    protocol,             \* self.protocol
    list_items,           \* rows of ServerListWidget (as of the last update)
    nodes,                \* server rows of NodesListWidget (as of the last update)
    node_tree,            \* top-level items of NodesListWidget (as of the last update)
    split_label,          \* split_label.text(), in pieces
    banlink,              \* the legend shows the "View ban list..." link
    ban_dialog,           \* the modal "Banned Servers" dialog is open
    \* ---- observation of the last handler ----
    act,                  \* the handler that ran last and its arguments
    log,                  \* the calls it made to the network object, in order
    steps,                \* how many handlers have run
    \* ---- the refresh path: NetworkDialog.on_network -> on_update ----
    pending,              \* network_updated_signal emissions queued for the GUI thread
    rl,                   \* rate limiter state of NetworkDialog.on_update
    jl,                   \* rate limiter state of SlpSearchJobListWidget.update
    since,                \* per refresh: ms since it last executed (saturating)
    gap,                  \* per refresh: the smallest time seen between two executions
    runs,                 \* per refresh: how often it executed (saturating)
    hist,                 \* what became of the latest on_update calls
    unserved,             \* an event arrived and no dialog refresh ran since
    \* ---- TorDetector (a QThread) and the proxy tab that starts and stops it ----
    proxy_tab_shown,      \* the proxy tab is visible
    td_pc,                \* the thread: "idle" (not running), "probe", "wait", "got"
    stopQ,                \* self.stopQ: which queue object it is (0: none yet)
    queues,               \* number of items in each queue object created so far
    td_waitq,             \* the queue object the thread's stopQ.get() was called on
    td_signals,           \* found_proxy emissions queued for the GUI thread
    td_stopping,          \* stop() reached the running thread and no start() came since
    td_rounds,            \* probe rounds completed since that stop() (saturating)
    \* ---- the network's connections and chains ----
    peers,                \* connected interfaces beside the active one, each with its chain
    chain_index           \* the chain the active interface is on (network.blockchain())

\* The dialog, the network object and the observation of the last handler.
corevars == <<net, interface, blacklisted_servers, whitelisted_servers, whitelist_only,
              locked, server_host, server_port, focus, fields_enabled, ssl_cb, ssl_enabled,
              autoconnect_cb, autoconnect_enabled, preferred_only_cb, tor_cb, tor_enabled,
              tor_proxy, proxy_cb, proxy_mode, proxy_host, proxy_port, protocol,
              list_items, nodes, node_tree, split_label, banlink, ban_dialog, act, log>>

ratevars == <<pending, rl, jl, since, gap, runs, hist, unserved>>

tdvars == <<proxy_tab_shown, td_pc, stopQ, queues, td_waitq, td_signals, td_stopping,
            td_rounds>>

chainvars == <<peers, chain_index>>

vars == <<corevars, steps, ratevars, tdvars, chainvars>>

netvars == <<net, interface, blacklisted_servers, whitelisted_servers, whitelist_only>>

proxyvars == <<tor_cb, tor_enabled, tor_proxy, proxy_cb, proxy_mode, proxy_host, proxy_port>>

(***************************************************************************)
(* Values                                                                  *)
(***************************************************************************)
protocol_letters == {"t", "s"}

\* The catalog network.get_servers() returns: host -> {protocol: port}.
Catalog ==
    [h \in {"a.example", "b.onion", "c.example"} |->
        CASE h = "a.example" -> [l \in {"t", "s"} |-> IF l = "t" THEN "50001" ELSE "50002"]
          [] h = "b.onion" -> [l \in {"t"} |-> "50001"]
          [] h = "c.example" -> [l \in {"s"} |-> "50002"]]

Hosts == DOMAIN Catalog

Ports == {"50001", "50002"}

\* host.lower().endswith('.onion')
IsOnion(host) == host \in {"b.onion"}

None == << >>

NoPort == "none"

TorPorts == {"9050"}

NoUser == ""

NoProxy == [mode |-> "none", host |-> "", port |-> "", user |-> NoUser, password |-> NoUser]

serialize_server(host, port, letter) == <<host, ":", port, ":", letter>>

\* rsplit(':', 2) of the token string
deserialize_server(s) ==
    LET n == Len(s) IN [host |-> s[n - 4], port |-> s[n - 2], protocol |-> s[n]]

\* Every canonical string of a catalog entry.
Servers ==
    UNION {{serialize_server(h, Catalog[h][l], l) : l \in DOMAIN Catalog[h]} : h \in Hosts}

ServerOf(n) == serialize_server(n.host, n.port, n.protocol)

ServerFlag_Banned == 2

ServerFlag_Preferred == 1

dialogvars == <<server_host, server_port, focus, fields_enabled, ssl_cb, ssl_enabled,
                autoconnect_cb, autoconnect_enabled, preferred_only_cb, protocol,
                list_items, nodes, node_tree,
                   split_label, banlink>>

HasFlag(flagval, bit) == (flagval \div bit) % 2 = 1

(***************************************************************************)
(* The network object, as far as the dialog relies on it.                  *)
(***************************************************************************)
\* A server the network layer may be connected to under the given trust state.
NetEligible(s, bl, wl, wlo) == s \notin bl /\ (~wlo \/ s \in wl)

\* The active server after the network layer was asked for `target`: the target
\* when it may be used, otherwise a server that may (or none).
NetReselect(target, bl, wl, wlo) ==
    IF NetEligible(target, bl, wl, wlo) THEN {target}
    ELSE LET others == {x \in Servers : NetEligible(x, bl, wl, wlo)}
         IN  IF others = {} THEN {None} ELSE others

\* network.set_parameters(host, port, protocol, proxy, auto_connect)
ParamsOf(req) ==
    [host |-> req.host, port |-> req.port, protocol |-> req.protocol,
     proxy |-> req.proxy, auto_connect |-> req.auto_connect]

\* network.server_set_blacklisted(server, flag, save) / server_set_whitelisted
SetMember(set, server, flag) == IF flag THEN set \cup {server} ELSE set \ {server}

(***************************************************************************)
(* NetworkChoiceLayout                                                     *)
(***************************************************************************)
is_modifiable(key) == key \notin locked

get_set_server_flags ==
    <<is_modifiable("server"), ~autoconnect_cb /\ ~preferred_only_cb>>

\* can_set_server with a preferred server exempt from the ban check
can_set_server_preferred_wins(server) ==
    /\ is_modifiable("server")
    /\ (server \notin blacklisted_servers \/ server \in whitelisted_servers)
    /\ (~whitelist_only \/ server \in whitelisted_servers)

\* can_set_server without the preferred-only check
can_set_server_no_whitelist(server) ==
    /\ is_modifiable("server")
    /\ server \notin blacklisted_servers

\* can_set_server asking for a preferred server in either mode
can_set_server_needs_preferred(server) ==
    /\ is_modifiable("server")
    /\ server \notin blacklisted_servers
    /\ server \in whitelisted_servers

can_set_server(server) ==
    /\ get_set_server_flags[1]
    /\ server \notin blacklisted_servers
    /\ (~whitelist_only \/ server \in whitelisted_servers)

\* The protocol set_server() sends: the SSL checkbox, or TCP for an onion host
\* when called with onion_hack.
set_server_protocol(h, ssl, onion_hack) ==
    IF onion_hack /\ IsOnion(h) THEN "t" ELSE IF ssl THEN "s" ELSE "t"

\* ssl_cb after set_server()
set_server_ssl(h, ssl, onion_hack) ==
    IF onion_hack /\ IsOnion(h) THEN FALSE ELSE ssl

\* The set_parameters call of set_server(): host and port from the text fields,
\* protocol from the SSL checkbox, proxy as read from get_parameters(),
\* auto_connect from the checkbox.
set_server(h, p, ssl, auto, onion_hack, proxy) ==
    [op |-> "set_parameters", host |-> h, port |-> p,
     protocol |-> set_server_protocol(h, ssl, onion_hack),
     proxy |-> proxy, auto_connect |-> auto]

\* ServerListWidget.update without the test that skips onion hosts
ServerListItems_lists_onion(servers, proto, use_tor, bl, wl, wlo) ==
    {  LET port == servers[h][proto]
           server == serialize_server(h, port, proto)
           flagval == (IF server \in bl THEN ServerFlag_Banned ELSE 0)
                      + (IF server \in wl THEN ServerFlag_Preferred ELSE 0)
       IN  [server |-> server, host |-> h, port |-> port, flagval |-> flagval,
            light |-> (wlo /\ flagval # ServerFlag_Preferred)
                      \/ HasFlag(flagval, ServerFlag_Banned)]
       : h \in {x \in DOMAIN servers : proto \in DOMAIN servers[x]} }

\* ServerListWidget.update lightening a banned row only if it is not preferred
ServerListItems_preferred_not_light(servers, proto, use_tor, bl, wl, wlo) ==
    {  LET port == servers[h][proto]
           server == serialize_server(h, port, proto)
           flagval == (IF server \in bl THEN ServerFlag_Banned ELSE 0)
                      + (IF server \in wl THEN ServerFlag_Preferred ELSE 0)
       IN  [server |-> server, host |-> h, port |-> port, flagval |-> flagval,
            light |-> (wlo /\ flagval # ServerFlag_Preferred)
                      \/ flagval = ServerFlag_Banned]
       : h \in {x \in DOMAIN servers :
                   /\ ~(IsOnion(x) /\ ~use_tor)
                   /\ proto \in DOMAIN servers[x]} }

\* Rows of ServerListWidget.update(network, servers, protocol, use_tor)
ServerListItems(servers, proto, use_tor, bl, wl, wlo) ==
    {  LET port == servers[h][proto]
           server == serialize_server(h, port, proto)
           flagval == (IF server \in bl THEN ServerFlag_Banned ELSE 0)
                      + (IF server \in wl THEN ServerFlag_Preferred ELSE 0)
       IN  [server |-> server, host |-> h, port |-> port, flagval |-> flagval,
            light |-> (wlo /\ flagval # ServerFlag_Preferred)
                      \/ HasFlag(flagval, ServerFlag_Banned)]
       : h \in {x \in DOMAIN servers :
                   /\ ~(IsOnion(x) /\ ~use_tor)
                   /\ proto \in DOMAIN servers[x]} }

\* network.blockchains: the chains the network knows, by base height.  The
\* first is the main chain, the second forks from it after block 100.
ChainKeys == {0, 100}

Blockchains ==
    [k \in ChainKeys |->
        IF k = 0
        THEN [name |-> "000000000019d668", base_height |-> 0, height |-> 120,
              branch_size |-> 121]
        ELSE [name |-> "00000000a1b2c3d4", base_height |-> 100, height |-> 118,
              branch_size |-> 18]]

\* The connected interfaces with the chain each is on: the active one (i, on
\* chain ci) and the others (ps).
Interfaces(i, ps, ci) ==
    (IF i = None THEN {} ELSE {[server |-> i, chain |-> ci]})
        \cup {q \in ps : q.server # i}

\* network.get_blockchains(): for every chain some interface is on, the
\* interfaces on it.
get_blockchains(i, ps, ci) ==
    [k \in {q.chain : q \in Interfaces(i, ps, ci)} |->
        {q.server : q \in {r \in Interfaces(i, ps, ci) : r.chain = k}}]

\* The split message built for any number of chains
split_message_any_chain(chains, chain, auto_connect) ==
    <<"Chain split detected at block ", ToString(chain.base_height), "\n",
      IF auto_connect THEN "You are following branch" ELSE "Your server is on branch",
      " ", chain.name, " (", ToString(chain.branch_size), " blocks)">>

\* The text update() puts into split_label: chains is get_blockchains(),
\* chain is network.blockchain().
split_message(chains, chain, auto_connect) ==
    IF Cardinality(DOMAIN chains) > 1
    THEN <<"Chain split detected at block ", ToString(chain.base_height), "\n",
           IF auto_connect THEN "You are following branch" ELSE "Your server is on branch",
           " ", chain.name, " (", ToString(chain.branch_size), " blocks)">>
    ELSE << >>

\* A row of NodesListWidget for a connected interface: the host, starred for
\* the active interface, and its tip (taken to be the height of its chain).
NodeItem(server, k, i) ==
    [text |-> <<deserialize_server(server).host>>
                  \o (IF server = i THEN <<" <">> ELSE << >>),
     tip |-> ToString(Blockchains[k].height),
     role |-> 0, server |-> server, children |-> {}]

\* NodesListWidget.update(network): the top-level items.
NodesList_update(chains, i) ==
    IF Cardinality(DOMAIN chains) > 1
    THEN {[text |-> <<Blockchains[k].name, "@", ToString(Blockchains[k].base_height)>>,
           tip |-> ToString(Blockchains[k].height),
           role |-> 1, server |-> None,
           children |-> {NodeItem(srv, k, i) : srv \in chains[k]}] : k \in DOMAIN chains}
    ELSE UNION {{NodeItem(srv, k, i) : srv \in chains[k]} : k \in DOMAIN chains}

\* enable_set_server looking at the auto-connect box only
enable_fields_auto_only(auto, pref) ==
    IF is_modifiable("server") THEN ~auto ELSE FALSE

\* enable_set_server(): the host / port fields after it
enable_fields(auto, pref) ==
    IF is_modifiable("server") THEN ~auto /\ ~pref ELSE FALSE

\* update() writing the host and port fields whether or not one has the focus
update_overwrites(n, i, bl, wl, wlo, h, p) ==
    /\ server_host' = n.host
    /\ server_port' = n.port
    /\ ssl_cb' = (n.protocol = "s")
    /\ ssl_enabled' = ~((n.protocol = "s") /\ ~tor_cb /\ ~IsOnion(n.host))
    /\ autoconnect_cb' = n.auto_connect
    /\ preferred_only_cb' = wlo
    /\ protocol' = n.protocol
    /\ list_items' = ServerListItems(Catalog, n.protocol, tor_cb, bl, wl, wlo)
    /\ fields_enabled' = enable_fields(n.auto_connect, wlo)
    /\ autoconnect_enabled' = (autoconnect_enabled /\ is_modifiable("server"))
    /\ focus' = IF enable_fields(n.auto_connect, wlo) THEN focus ELSE "none"
    /\ split_label' = split_message(get_blockchains(i, peers, chain_index),
                                    Blockchains[chain_index], n.auto_connect)
    /\ node_tree' = NodesList_update(get_blockchains(i, peers, chain_index), i)
    /\ nodes' = {q.server : q \in Interfaces(i, peers, chain_index)}
    /\ banlink' = (bl # {})

\* NetworkChoiceLayout.update(), reading network state (n, i, bl, wl, wlo) and
\* the current field texts h, p.
update(n, i, bl, wl, wlo, h, p) ==
    /\ server_host' = IF focus = "none" THEN n.host ELSE h
    /\ server_port' = IF focus = "none" THEN n.port ELSE p
    /\ ssl_cb' = (n.protocol = "s")
    /\ ssl_enabled' = ~((n.protocol = "s") /\ ~tor_cb /\ ~IsOnion(n.host))
    /\ autoconnect_cb' = n.auto_connect
    /\ preferred_only_cb' = wlo
    /\ protocol' = n.protocol
    /\ list_items' = ServerListItems(Catalog, n.protocol, tor_cb, bl, wl, wlo)
    /\ fields_enabled' = enable_fields(n.auto_connect, wlo)
    /\ autoconnect_enabled' = (autoconnect_enabled /\ is_modifiable("server"))
    /\ focus' = IF enable_fields(n.auto_connect, wlo) THEN focus ELSE "none"
    /\ split_label' = split_message(get_blockchains(i, peers, chain_index),
                                    Blockchains[chain_index], n.auto_connect)
    /\ node_tree' = NodesList_update(get_blockchains(i, peers, chain_index), i)
    /\ nodes' = {q.server : q \in Interfaces(i, peers, chain_index)}
    /\ banlink' = (bl # {})

(***************************************************************************)
(* The rate-limited refreshes.  The decorator util.rate_limited keeps, per *)
(* decorated method, the time of the last execution and at most one timer: *)
(* a call made while the timer runs is folded into it, a call made sooner  *)
(* than `rate` after the last execution starts the timer for the rest of   *)
(* the interval, any other call executes at once.  Times are in ms.        *)
(***************************************************************************)
\* @rate_limited(0.333) on NetworkDialog.on_update
on_update_rate == 333

\* @rate_limited(1.0, classlevel=True, ts_after=True) on SlpSearchJobListWidget.update
jobs_update_rate == 1000

\* The step by which the model lets time pass.
TickMs == 111

\* The number of queued network_updated_signal emissions the model keeps.
MaxPending == 2

\* The number of on_update calls whose fate hist remembers.
MaxHist == 4

Min(a, b) == IF a < b THEN a ELSE b

Max(a, b) == IF a > b THEN a ELSE b

\* A limiter that has not been used: the last execution is long ago, no timer.
RateIdle(rate) == [age |-> rate, armed |-> FALSE, left |-> 0]

\* A call of a rate-limited method: the limiter after it, and whether the
\* method executes now.
RateLimitedCall(st, rate) ==
    IF st.armed THEN [st |-> st, run |-> FALSE]
    ELSE IF rate - st.age <= 0
         THEN [st |-> [st EXCEPT !.age = 0], run |-> TRUE]
         ELSE [st |-> [st EXCEPT !.armed = TRUE, !.left = rate - st.age], run |-> FALSE]

\* The limiter after its timer fired and the method executed.
RateLimitedFired(st) == [st EXCEPT !.age = 0, !.armed = FALSE, !.left = 0]

\* The limiter after d ms.
RateLimitedTick(st, rate, d) ==
    [st EXCEPT !.age = Min(st.age + d, rate), !.left = Max(st.left - d, 0)]

Refreshes == {"on_update", "jobs_update"}

RateOf(r) == IF r = "on_update" THEN on_update_rate ELSE jobs_update_rate

RateInit ==
    /\ pending = 0
    /\ rl = RateIdle(on_update_rate)
    /\ jl = RateIdle(jobs_update_rate)
    /\ since = [r \in Refreshes |-> RateOf(r)]
    /\ gap = [r \in Refreshes |-> RateOf(r)]
    /\ runs = [r \in Refreshes |-> 0]
    /\ hist = << >>
    /\ unserved = FALSE

(***************************************************************************)
(* TorDetector: bounds and initial state                                   *)
(***************************************************************************)
\* The number of TorDetector.start() calls a behaviour makes.
MaxSessions == 3

\* The number of found_proxy emissions that may wait for the GUI thread.
MaxSignals == 2

\* After __init__: the detector exists, its thread was never started and it has
\* no stopQ attribute yet; the proxy tab is not the one shown.
TorInit ==
    /\ proxy_tab_shown = FALSE
    /\ td_pc = "idle"
    /\ stopQ = 0
    /\ queues = [q \in 1..MaxSessions |-> 0]
    /\ td_waitq = 0
    /\ td_signals = << >>
    /\ td_stopping = FALSE
    /\ td_rounds = 0

(***************************************************************************)
(* Init: the state after NetworkChoiceLayout.__init__                      *)
(***************************************************************************)
Init ==
    /\ RateInit
    /\ TorInit
    /\ locked \in {{}, {"server"}}
    /\ blacklisted_servers = {}
    /\ whitelisted_servers = {serialize_server("a.example", "50002", "s"),
                              serialize_server("b.onion", "50001", "t")}
    /\ whitelist_only \in BOOLEAN
    /\ \E s \in Servers, a \in BOOLEAN :
          /\ NetEligible(s, blacklisted_servers, whitelisted_servers, whitelist_only)
          /\ net = [host |-> deserialize_server(s).host, port |-> deserialize_server(s).port,
                    protocol |-> deserialize_server(s).protocol, proxy |-> NoProxy,
                    auto_connect |-> a]
          /\ interface = s
    /\ tor_cb = FALSE /\ tor_enabled = FALSE /\ tor_proxy = NoPort
    /\ proxy_cb = FALSE /\ proxy_mode = "SOCKS4"
    /\ proxy_host = "localhost" /\ proxy_port = "9050"
    /\ server_host = net.host /\ server_port = net.port /\ focus = "none"
    /\ ssl_cb = (net.protocol = "s")
    /\ ssl_enabled = ~((net.protocol = "s") /\ ~IsOnion(net.host))
    /\ autoconnect_cb = net.auto_connect
    /\ autoconnect_enabled = (is_modifiable("auto_connect") /\ is_modifiable("server"))
    /\ preferred_only_cb = whitelist_only
    /\ protocol = net.protocol
    /\ list_items = ServerListItems(Catalog, net.protocol, FALSE, blacklisted_servers,
                                    whitelisted_servers, whitelist_only)
    /\ fields_enabled = enable_fields(net.auto_connect, whitelist_only)
    /\ peers = {} /\ chain_index = 0
    /\ split_label = split_message(get_blockchains(interface, peers, chain_index),
                                   Blockchains[chain_index], net.auto_connect)
    /\ node_tree = NodesList_update(get_blockchains(interface, peers, chain_index),
                                    interface)
    /\ nodes = {interface}
    /\ banlink = FALSE
    /\ ban_dialog = FALSE
    /\ act = [name |-> "init", server |-> None, flag |-> FALSE, iface |-> interface,
               params |-> net]
    /\ log = << >>
    /\ steps = 0

(***************************************************************************)
(* Handlers                                                                *)
(***************************************************************************)
\* What is recorded of a handler: its name and arguments, and the network's
\* active server and parameters when it was invoked.
Act(name, server, flag) ==
    [name |-> name, server |-> server, flag |-> flag, iface |-> interface, params |-> net]

Call_set_blacklisted(server, flag, save) ==
    [op |-> "server_set_blacklisted", server |-> server, flag |-> flag, save |-> save]

Call_set_whitelisted(server, flag, save) ==
    [op |-> "server_set_whitelisted", server |-> server, flag |-> flag, save |-> save]

Call_set_whitelist_only(flag) == [op |-> "set_whitelist_only", flag |-> flag]

Call_switch_to_interface(server) == [op |-> "switch_to_interface", server |-> server]

\* NetworkDialog.on_update: the refresh a background event leads to.
on_update ==
    /\ update(net, interface, blacklisted_servers, whitelisted_servers, whitelist_only,
              server_host, server_port)
    /\ act' = Act("on_update", None, FALSE)
    /\ log' = << >>
    /\ UNCHANGED <<netvars, locked, proxyvars, ban_dialog>>

\* The network layer, in auto-connect mode, moves to another server on its own;
\* the dialog learns of it with the next refresh.
network_switch(s) ==
    /\ net.auto_connect
    /\ s # interface
    /\ NetEligible(s, blacklisted_servers, whitelisted_servers, whitelist_only)
    /\ net' = [net EXCEPT !.host = deserialize_server(s).host,
                          !.port = deserialize_server(s).port,
                          !.protocol = deserialize_server(s).protocol]
    /\ interface' = s
    /\ act' = Act("network_switch", s, FALSE)
    /\ log' = << >>
    /\ UNCHANGED <<blacklisted_servers, whitelisted_servers, whitelist_only, locked,
                   dialogvars, proxyvars, ban_dialog>>

\* The user types into the host field (which has or takes the focus).
edit_host(h) ==
    /\ fields_enabled /\ ~ban_dialog
    /\ server_host' = h
    /\ focus' = "host"
    /\ act' = Act("edit", None, FALSE)
    /\ log' = << >>
    /\ UNCHANGED <<netvars, locked, proxyvars, ban_dialog, server_port, fields_enabled,
                   ssl_cb, ssl_enabled, autoconnect_cb, autoconnect_enabled,
                   preferred_only_cb, protocol, list_items, nodes, node_tree,
                   split_label, banlink>>

\* The user types into the port field.
edit_port(p) ==
    /\ fields_enabled /\ ~ban_dialog
    /\ server_port' = p
    /\ focus' = "port"
    /\ act' = Act("edit", None, FALSE)
    /\ log' = << >>
    /\ UNCHANGED <<netvars, locked, proxyvars, ban_dialog, server_host, fields_enabled,
                   ssl_cb, ssl_enabled, autoconnect_cb, autoconnect_enabled,
                   preferred_only_cb, protocol, list_items, nodes, node_tree,
                   split_label, banlink>>

\* server_host / server_port editingFinished -> set_server(onion_hack=True);
\* Return keeps the focus, leaving the field gives it up.
editing_finished(keep) ==
    /\ focus # "none" /\ ~ban_dialog
    /\ LET req == set_server(server_host, server_port, ssl_cb, autoconnect_cb, TRUE, net.proxy)
       IN  /\ net' = ParamsOf(req)
           /\ interface' \in NetReselect(ServerOf(ParamsOf(req)), blacklisted_servers,
                                         whitelisted_servers, whitelist_only)
           /\ log' = <<req>>
    /\ ssl_cb' = set_server_ssl(server_host, ssl_cb, TRUE)
    /\ focus' = IF keep THEN focus ELSE "none"
    /\ act' = Act("editing_finished", None, FALSE)
    /\ UNCHANGED <<blacklisted_servers, whitelisted_servers, whitelist_only, locked,
                   proxyvars, ban_dialog, server_host, server_port, fields_enabled,
                   ssl_enabled, autoconnect_cb, autoconnect_enabled, preferred_only_cb,
                   protocol, list_items, nodes, node_tree,
                   split_label, banlink>>

\* networks.net.DEFAULT_PORTS
DEFAULT_PORTS == [l \in {"t", "s"} |-> IF l = "t" THEN "50001" ELSE "50002"]

\* self.servers.get(host, networks.net.DEFAULT_PORTS)
PortsOfHost(servers, host) == IF host \in DOMAIN servers THEN servers[host] ELSE DEFAULT_PORTS

\* list(pp.keys())[0]
FirstKey(pp) == IF "t" \in DOMAIN pp THEN "t" ELSE "s"

\* A protocol argument that is None or empty.
NoProtocol == ""

\* change_server falling back to the first key without trying SSL first
change_server_resolve_no_ssl(host, desired) ==
    LET pp == PortsOfHost(Catalog, host)
        p == IF desired \in protocol_letters /\ desired \in DOMAIN pp
             THEN desired ELSE FirstKey(pp)
    IN  [protocol |-> p, port |-> pp[p]]

\* change_server(host, protocol): the protocol and port it settles on.  A
\* protocol that is no protocol letter, or that the host has no port for, is
\* dropped; then SSL is taken if the host offers it, else the host's first key.
change_server_resolve(host, desired) ==
    LET pp == PortsOfHost(Catalog, host)
        p1 == IF desired # NoProtocol /\ desired \notin protocol_letters
              THEN NoProtocol ELSE desired
        p2 == IF p1 # NoProtocol /\ p1 \notin DOMAIN pp THEN NoProtocol ELSE p1
        p == IF p2 = NoProtocol
             THEN (IF "s" \in DOMAIN pp THEN "s" ELSE FirstKey(pp))
             ELSE p2
    IN  [protocol |-> p, port |-> pp[p]]

\* NetworkChoiceLayout.change_server(host, protocol): sets the host and port
\* fields and the SSL check box; it makes no call to the network.
change_server(host, desired) ==
    /\ server_host' = host
    /\ server_port' = change_server_resolve(host, desired).port
    /\ ssl_cb' = (change_server_resolve(host, desired).protocol = "s")
    /\ act' = Act("change_server", <<host, desired>>, FALSE)
    /\ log' = << >>
    /\ UNCHANGED <<netvars, locked, proxyvars, ban_dialog, focus, fields_enabled,
                   ssl_enabled, autoconnect_cb, autoconnect_enabled, preferred_only_cb,
                   protocol, list_items, nodes, node_tree,
                   split_label, banlink>>

\* change_protocol(use_ssl): the protocol letter p it settles on
change_protocol_p(host, use_ssl) ==
    LET p == IF use_ssl THEN "s" ELSE "t"
        pp == PortsOfHost(Catalog, host)
    IN  IF p \notin DOMAIN pp THEN FirstKey(pp) ELSE p

\* ssl_cb clicked -> change_protocol(checked)
change_protocol ==
    /\ ssl_enabled /\ ~ban_dialog
    /\ LET use_ssl == ~ssl_cb
           p == change_protocol_p(server_host, use_ssl)
           port == PortsOfHost(Catalog, server_host)[p]
           req == set_server(server_host, port, use_ssl, autoconnect_cb, FALSE, net.proxy)
       IN  /\ ssl_cb' = use_ssl
           /\ server_port' = port
           /\ protocol' = p
           /\ net' = ParamsOf(req)
           /\ interface' \in NetReselect(ServerOf(ParamsOf(req)), blacklisted_servers,
                                         whitelisted_servers, whitelist_only)
           /\ log' = <<req>>
    /\ act' = Act("change_protocol", None, ~ssl_cb)
    /\ UNCHANGED <<blacklisted_servers, whitelisted_servers, whitelist_only, locked,
                   proxyvars, ban_dialog, server_host, focus, fields_enabled, ssl_enabled,
                   autoconnect_cb, autoconnect_enabled, preferred_only_cb, list_items,
                   nodes, node_tree, split_label, banlink>>

\* autoconnect_cb clicked -> set_server(checked), then update(): the clicked
\* signal's argument arrives as set_server's onion_hack.
autoconnect_clicked ==
    /\ autoconnect_enabled /\ ~ban_dialog
    /\ LET b == ~autoconnect_cb
           req == set_server(server_host, server_port, ssl_cb, b, b, net.proxy)
       IN  \E i \in NetReselect(ServerOf(ParamsOf(req)), blacklisted_servers,
                                whitelisted_servers, whitelist_only) :
              /\ net' = ParamsOf(req)
              /\ interface' = i
              /\ log' = <<req>>
              /\ update(ParamsOf(req), i, blacklisted_servers, whitelisted_servers,
                        whitelist_only, server_host, server_port)
    /\ act' = Act("set_autoconnect", None, ~autoconnect_cb)
    /\ UNCHANGED <<blacklisted_servers, whitelisted_servers, whitelist_only, locked,
                   proxyvars, ban_dialog>>

\* set_whitelisted_only with set_server() called before the flag is updated
set_whitelisted_only_late(b) ==
    LET req == set_server(server_host, server_port, ssl_cb, autoconnect_cb, FALSE, net.proxy)
    IN  \E i \in NetReselect(ServerOf(ParamsOf(req)), blacklisted_servers,
                             whitelisted_servers, b) :
           /\ whitelist_only' = b
           /\ net' = ParamsOf(req)
           /\ interface' = i
           /\ log' = <<req, Call_set_whitelist_only(b)>>
           /\ update(ParamsOf(req), i, blacklisted_servers, whitelisted_servers, b,
                     server_host, server_port)
           /\ act' = Act("set_whitelisted_only", interface, b)
           /\ UNCHANGED <<blacklisted_servers, whitelisted_servers, locked, proxyvars,
                          ban_dialog>>

\* NetworkChoiceLayout.set_whitelisted_only(b)
set_whitelisted_only(b) ==
    LET req == set_server(server_host, server_port, ssl_cb, autoconnect_cb, FALSE, net.proxy)
    IN  \E i \in NetReselect(ServerOf(ParamsOf(req)), blacklisted_servers,
                             whitelisted_servers, b) :
           /\ whitelist_only' = b
           /\ net' = ParamsOf(req)
           /\ interface' = i
           /\ log' = <<Call_set_whitelist_only(b), req>>
           /\ update(ParamsOf(req), i, blacklisted_servers, whitelisted_servers, b,
                     server_host, server_port)
           /\ act' = Act("set_whitelisted_only", interface, b)
           /\ UNCHANGED <<blacklisted_servers, whitelisted_servers, locked, proxyvars,
                          ban_dialog>>

\* preferred_only_cb clicked -> set_whitelisted_only(checked)
preferred_only_clicked ==
    /\ is_modifiable("whitelist_servers_only") /\ ~ban_dialog
    /\ set_whitelisted_only(~preferred_only_cb)

\* set_blacklisted without the set_server() call
set_blacklisted_no_apply(server, bl) ==
    LET bl1 == SetMember(blacklisted_servers, server, bl)
    IN  /\ blacklisted_servers' = bl1
        /\ log' = <<Call_set_blacklisted(server, bl, TRUE)>>
        /\ update(net, interface, bl1, whitelisted_servers, whitelist_only,
                  server_host, server_port)
        /\ act' = Act("set_blacklisted", server, bl)
        /\ UNCHANGED <<net, interface, whitelisted_servers, whitelist_only, locked,
                       proxyvars, ban_dialog>>

\* NetworkChoiceLayout.set_blacklisted(server, bl)
set_blacklisted(server, bl) ==
    LET bl1 == SetMember(blacklisted_servers, server, bl)
        req == set_server(server_host, server_port, ssl_cb, autoconnect_cb, FALSE, net.proxy)
    IN  \E i \in NetReselect(ServerOf(ParamsOf(req)), bl1, whitelisted_servers,
                             whitelist_only) :
           /\ blacklisted_servers' = bl1
           /\ net' = ParamsOf(req)
           /\ interface' = i
           /\ log' = <<Call_set_blacklisted(server, bl, TRUE), req>>
           /\ update(ParamsOf(req), i, bl1, whitelisted_servers, whitelist_only,
                     server_host, server_port)
           /\ act' = Act("set_blacklisted", server, bl)
           /\ UNCHANGED <<whitelisted_servers, whitelist_only, locked, proxyvars,
                          ban_dialog>>

\* set_whitelisted without the set_server() call
set_whitelisted_no_apply(server, flag) ==
    LET wl1 == SetMember(whitelisted_servers, server, flag)
    IN  /\ whitelisted_servers' = wl1
        /\ log' = <<Call_set_whitelisted(server, flag, TRUE)>>
        /\ update(net, interface, blacklisted_servers, wl1, whitelist_only,
                  server_host, server_port)
        /\ act' = Act("set_whitelisted", server, flag)
        /\ UNCHANGED <<net, interface, blacklisted_servers, whitelist_only, locked,
                       proxyvars, ban_dialog>>

\* NetworkChoiceLayout.set_whitelisted(server, flag)
set_whitelisted(server, flag) ==
    LET wl1 == SetMember(whitelisted_servers, server, flag)
        req == set_server(server_host, server_port, ssl_cb, autoconnect_cb, FALSE, net.proxy)
    IN  \E i \in NetReselect(ServerOf(ParamsOf(req)), blacklisted_servers, wl1,
                             whitelist_only) :
           /\ whitelisted_servers' = wl1
           /\ net' = ParamsOf(req)
           /\ interface' = i
           /\ log' = <<Call_set_whitelisted(server, flag, TRUE), req>>
           /\ update(ParamsOf(req), i, blacklisted_servers, wl1, whitelist_only,
                     server_host, server_port)
           /\ act' = Act("set_whitelisted", server, flag)
           /\ UNCHANGED <<blacklisted_servers, whitelist_only, locked, proxyvars,
                          ban_dialog>>

\* ServerListWidget.set_server without autoconnect_cb.setChecked(False)
ServerList_set_server_keeps_auto(s) ==
    LET d == deserialize_server(s)
        req == set_server(d.host, d.port, ssl_cb, autoconnect_cb, FALSE, net.proxy)
    IN  \E i \in NetReselect(ServerOf(ParamsOf(req)), blacklisted_servers,
                             whitelisted_servers, whitelist_only) :
           /\ net' = ParamsOf(req)
           /\ interface' = i
           /\ log' = <<req>>
           /\ update(ParamsOf(req), i, blacklisted_servers, whitelisted_servers,
                     whitelist_only, d.host, d.port)
           /\ act' = Act("choose_server", s, can_set_server(s))
           /\ UNCHANGED <<blacklisted_servers, whitelisted_servers, whitelist_only,
                          locked, proxyvars, ban_dialog>>

\* ServerListWidget.set_server without server_port.setText(port)
ServerList_set_server_keeps_port(s) ==
    LET d == deserialize_server(s)
        req == set_server(d.host, server_port, ssl_cb, FALSE, FALSE, net.proxy)
    IN  \E i \in NetReselect(ServerOf(ParamsOf(req)), blacklisted_servers,
                             whitelisted_servers, whitelist_only) :
           /\ net' = ParamsOf(req)
           /\ interface' = i
           /\ log' = <<req>>
           /\ update(ParamsOf(req), i, blacklisted_servers, whitelisted_servers,
                     whitelist_only, d.host, server_port)
           /\ act' = Act("choose_server", s, can_set_server(s))
           /\ UNCHANGED <<blacklisted_servers, whitelisted_servers, whitelist_only,
                          locked, proxyvars, ban_dialog>>

\* ServerListWidget.set_server(s): "Use as server"
ServerList_set_server(s) ==
    LET d == deserialize_server(s)
        req == set_server(d.host, d.port, ssl_cb, FALSE, FALSE, net.proxy)
    IN  \E i \in NetReselect(ServerOf(ParamsOf(req)), blacklisted_servers,
                             whitelisted_servers, whitelist_only) :
           /\ net' = ParamsOf(req)
           /\ interface' = i
           /\ log' = <<req>>
           /\ update(ParamsOf(req), i, blacklisted_servers, whitelisted_servers,
                     whitelist_only, d.host, d.port)
           /\ act' = Act("choose_server", s, can_set_server(s))
           /\ UNCHANGED <<blacklisted_servers, whitelisted_servers, whitelist_only,
                          locked, proxyvars, ban_dialog>>

\* create_menu offering "Use as server" for every row
menu_use_as_server_ungated(item) ==
    /\ ~ban_dialog /\ item \in list_items
    /\ ServerList_set_server(item.server)

\* The texts of the menu's preferred and ban entries.
PreferredEntries == {"Add to preferred", "Remove from preferred"}

BanEntries == {"Ban server", "Unban server"}

\* create_menu offering the preferred entry for a banned row as well
create_menu_preferred_for_banned(item) ==
    (IF can_set_server(item.server) /\ ~HasFlag(item.flagval, ServerFlag_Banned)
     THEN {"Use as server"} ELSE {})
    \cup {IF HasFlag(item.flagval, ServerFlag_Preferred)
          THEN "Remove from preferred" ELSE "Add to preferred"}
    \cup {IF HasFlag(item.flagval, ServerFlag_Banned) THEN "Unban server" ELSE "Ban server"}

\* ServerListWidget.create_menu: the enabled entries of the menu for a row.
\* flagval is the row's item data, as of the last update of the list.
create_menu(item) ==
    (IF can_set_server(item.server) /\ ~HasFlag(item.flagval, ServerFlag_Banned)
     THEN {"Use as server"} ELSE {})
    \cup (IF HasFlag(item.flagval, ServerFlag_Banned)
          THEN {"Unban server"}
          ELSE {IF HasFlag(item.flagval, ServerFlag_Preferred)
                THEN "Remove from preferred" ELSE "Add to preferred",
                "Ban server"})

\* The user picks an entry of the menu of a row.
menu_use_as_server(item) ==
    /\ ~ban_dialog /\ item \in list_items
    /\ "Use as server" \in create_menu(item)
    /\ ServerList_set_server(item.server)

menu_set_whitelisted(item) ==
    /\ ~ban_dialog /\ item \in list_items
    /\ create_menu(item) \cap PreferredEntries # {}
    /\ set_whitelisted(item.server, ~HasFlag(item.flagval, ServerFlag_Preferred))

menu_set_blacklisted(item) ==
    /\ ~ban_dialog /\ item \in list_items
    /\ create_menu(item) \cap BanEntries # {}
    /\ set_blacklisted(item.server, ~HasFlag(item.flagval, ServerFlag_Banned))

\* follow_server forcing auto-connect off, as ServerListWidget.set_server does
follow_server_auto_off(server) ==
    LET d == deserialize_server(server)
        req == [op |-> "set_parameters", host |-> d.host, port |-> d.port,
                protocol |-> d.protocol, proxy |-> net.proxy, auto_connect |-> FALSE]
    IN  \E i \in NetReselect(server, blacklisted_servers, whitelisted_servers,
                             whitelist_only) :
           /\ net' = ParamsOf(req)
           /\ interface' = i
           /\ log' = <<Call_switch_to_interface(server), req>>
           /\ update(ParamsOf(req), i, blacklisted_servers, whitelisted_servers,
                     whitelist_only, server_host, server_port)
           /\ act' = Act("follow_server", server, FALSE)
           /\ UNCHANGED <<blacklisted_servers, whitelisted_servers, whitelist_only,
                          locked, proxyvars, ban_dialog>>

\* NetworkChoiceLayout.follow_server(server), from the node list's menu
follow_server(server) ==
    LET d == deserialize_server(server)
        n0 == [net EXCEPT !.host = d.host, !.port = d.port, !.protocol = d.protocol]
        req == [op |-> "set_parameters", host |-> d.host, port |-> d.port,
                protocol |-> d.protocol, proxy |-> n0.proxy,
                auto_connect |-> n0.auto_connect]
    IN  \E i \in NetReselect(server, blacklisted_servers, whitelisted_servers,
                             whitelist_only) :
           /\ net' = ParamsOf(req)
           /\ interface' = i
           /\ log' = <<Call_switch_to_interface(server), req>>
           /\ update(ParamsOf(req), i, blacklisted_servers, whitelisted_servers,
                     whitelist_only, server_host, server_port)
           /\ act' = Act("follow_server", server, FALSE)
           /\ UNCHANGED <<blacklisted_servers, whitelisted_servers, whitelist_only,
                          locked, proxyvars, ban_dialog>>

menu_follow_server(server) ==
    /\ ~ban_dialog /\ server \in nodes
    /\ follow_server(server)

\* str(self.proxy_mode.currentText()).lower()
Lower(mode) ==
    CASE mode = "SOCKS4" -> "socks4"
      [] mode = "SOCKS5" -> "socks5"
      [] mode = "HTTP" -> "http"

\* The set_parameters call of set_proxy(): everything as read from
\* get_parameters() (n) except the proxy, which comes from the proxy widgets.
set_proxy(n, cb, mode, host, port) ==
    [op |-> "set_parameters", host |-> n.host, port |-> n.port, protocol |-> n.protocol,
     proxy |-> IF cb THEN [mode |-> Lower(mode), host |-> host, port |-> port,
                           user |-> NoUser, password |-> NoUser]
               ELSE NoProxy,
     auto_connect |-> n.auto_connect]

\* TorDetector.found_proxy -> suggest_proxy(found_proxy)
suggest_proxy(found) ==
    /\ IF found = NoPort
       THEN /\ tor_enabled' = FALSE
            /\ tor_cb' = FALSE
            /\ UNCHANGED tor_proxy
       ELSE /\ tor_proxy' = found
            /\ tor_cb' = IF /\ proxy_mode = "SOCKS5" /\ proxy_host = "127.0.0.1"
                            /\ proxy_port = found /\ proxy_cb
                         THEN TRUE ELSE tor_cb
            /\ tor_enabled' = TRUE
    /\ act' = Act("suggest_proxy", None, found # NoPort)
    /\ log' = << >>
    /\ UNCHANGED <<netvars, locked, dialogvars, ban_dialog, proxy_cb, proxy_mode,
                   proxy_host, proxy_port>>

\* tor_cb clicked -> use_tor_proxy(checked).  Setting the mode combo box to
\* SOCKS5 fires currentIndexChanged when the mode changes, which runs
\* set_proxy() and proxy_settings_changed() before the handler goes on.
use_tor_proxy(use_it) ==
    /\ IF ~use_it
       THEN LET req == set_proxy(net, FALSE, proxy_mode, proxy_host, proxy_port)
            IN  /\ proxy_cb' = FALSE
                /\ tor_cb' = FALSE
                /\ net' = ParamsOf(req)
                /\ log' = <<req>>
                /\ UNCHANGED <<proxy_mode, proxy_host, proxy_port>>
       ELSE LET req1 == set_proxy(net, proxy_cb, "SOCKS5", proxy_host, proxy_port)
                n1 == IF proxy_mode # "SOCKS5" THEN ParamsOf(req1) ELSE net
                req2 == set_proxy(n1, TRUE, "SOCKS5", "127.0.0.1", tor_proxy)
            IN  /\ proxy_mode' = "SOCKS5"
                /\ proxy_host' = "127.0.0.1"
                /\ proxy_port' = tor_proxy
                /\ tor_cb' = TRUE
                /\ proxy_cb' = TRUE
                /\ net' = ParamsOf(req2)
                /\ log' = IF proxy_mode # "SOCKS5" THEN <<req1, req2>> ELSE <<req2>>
    /\ interface' \in NetReselect(ServerOf(net), blacklisted_servers,
                                  whitelisted_servers, whitelist_only)
    /\ act' = Act("use_tor_proxy", None, use_it)
    /\ UNCHANGED <<blacklisted_servers, whitelisted_servers, whitelist_only, locked,
                   dialogvars, ban_dialog, tor_enabled, tor_proxy>>

tor_clicked ==
    /\ tor_enabled /\ ~ban_dialog
    /\ use_tor_proxy(~tor_cb)

\* proxy_cb clicked -> check_disable_proxy(checked), set_proxy()
proxy_clicked ==
    /\ ~ban_dialog
    /\ LET req == set_proxy(net, ~proxy_cb, proxy_mode, proxy_host, proxy_port)
       IN  /\ proxy_cb' = ~proxy_cb
           /\ tor_cb' = IF ~proxy_cb THEN tor_cb ELSE FALSE
           /\ net' = ParamsOf(req)
           /\ log' = <<req>>
    /\ interface' \in NetReselect(ServerOf(net), blacklisted_servers,
                                  whitelisted_servers, whitelist_only)
    /\ act' = Act("set_proxy", None, ~proxy_cb)
    /\ UNCHANGED <<blacklisted_servers, whitelisted_servers, whitelist_only, locked,
                   dialogvars, ban_dialog, tor_enabled, tor_proxy, proxy_mode,
                   proxy_host, proxy_port>>

\* proxy_mode: the user picks another entry of the combo box.
\* currentIndexChanged runs set_proxy(), then proxy_settings_changed().
proxy_mode_changed(mode) ==
    /\ proxy_cb /\ is_modifiable("proxy") /\ ~ban_dialog
    /\ mode # proxy_mode
    /\ LET req == set_proxy(net, proxy_cb, mode, proxy_host, proxy_port)
       IN  /\ proxy_mode' = mode
           /\ net' = ParamsOf(req)
           /\ log' = <<req>>
    /\ tor_cb' = FALSE
    /\ interface' \in NetReselect(ServerOf(net), blacklisted_servers,
                                  whitelisted_servers, whitelist_only)
    /\ act' = Act("proxy_mode_changed", None, FALSE)
    /\ UNCHANGED <<blacklisted_servers, whitelisted_servers, whitelist_only, locked,
                   dialogvars, ban_dialog, tor_enabled, tor_proxy, proxy_cb, proxy_host,
                   proxy_port>>

\* The user types into proxy_host or proxy_port: textEdited runs
\* proxy_settings_changed(); nothing is sent before editingFinished.
proxy_text_edited(host, port) ==
    /\ proxy_cb /\ is_modifiable("proxy") /\ ~ban_dialog
    /\ <<host, port>> # <<proxy_host, proxy_port>>
    /\ host = proxy_host \/ port = proxy_port
    /\ proxy_host' = host
    /\ proxy_port' = port
    /\ tor_cb' = FALSE
    /\ act' = Act("proxy_text_edited", None, FALSE)
    /\ log' = << >>
    /\ UNCHANGED <<netvars, locked, dialogvars, ban_dialog, tor_enabled, tor_proxy,
                   proxy_cb, proxy_mode>>

\* proxy_host / proxy_port editingFinished -> set_proxy()
proxy_editing_finished ==
    /\ proxy_cb /\ is_modifiable("proxy") /\ ~ban_dialog
    /\ LET req == set_proxy(net, proxy_cb, proxy_mode, proxy_host, proxy_port)
       IN  /\ net' = ParamsOf(req)
           /\ log' = <<req>>
    /\ interface' \in NetReselect(ServerOf(net), blacklisted_servers,
                                  whitelisted_servers, whitelist_only)
    /\ act' = Act("proxy_editing_finished", None, FALSE)
    /\ UNCHANGED <<blacklisted_servers, whitelisted_servers, whitelist_only, locked,
                   dialogvars, ban_dialog, proxyvars>>

\* The orders list(self.network.blacklisted_servers) may have.
Orders(set) ==
    {f \in [1..Cardinality(set) -> set] : \A x \in set : \E i \in DOMAIN f : f[i] = x}

\* parent.show_error(_("Server ban list is empty!"))
Call_show_error == [op |-> "show_error", text |-> "Server ban list is empty!"]

\* NetworkChoiceLayout.on_view_blacklist: with an empty ban list it reports
\* that and returns; otherwise it opens the modal "Banned Servers" dialog.
on_view_blacklist ==
    /\ ~ban_dialog
    /\ ban_dialog' = (blacklisted_servers # {})
    /\ act' = Act("on_view_blacklist", None, blacklisted_servers # {})
    /\ log' = IF blacklisted_servers = {} THEN <<Call_show_error>> ELSE << >>
    /\ UNCHANGED <<netvars, locked, dialogvars, proxyvars>>

\* legend link "View ban list..." -> on_view_blacklist
banlink_activated ==
    /\ banlink
    /\ on_view_blacklist

\* on_clear_blacklist clearing the list whatever the answer to its question
on_clear_blacklist_unasked(confirm, bl) ==
    /\ bl \in Orders(blacklisted_servers)
    /\ log' = [i \in 1..Len(bl) |-> Call_set_blacklisted(bl[i], FALSE, i = Len(bl))]
    /\ blacklisted_servers' = blacklisted_servers \ {bl[i] : i \in 1..Len(bl)}
    /\ update(net, interface, blacklisted_servers \ {bl[i] : i \in 1..Len(bl)},
              whitelisted_servers, whitelist_only, server_host, server_port)
    /\ ban_dialog' = IF confirm THEN FALSE ELSE ban_dialog
    /\ act' = Act("on_clear_blacklist", None, confirm)
    /\ UNCHANGED <<net, interface, whitelisted_servers, whitelist_only, locked, proxyvars>>

\* on_clear_blacklist saving on the first iteration instead of the last
on_clear_blacklist_save_first(confirm, bl) ==
    /\ bl \in Orders(blacklisted_servers)
    /\ IF confirm
       THEN /\ log' = [i \in 1..Len(bl) |-> Call_set_blacklisted(bl[i], FALSE, i = 1)]
            /\ blacklisted_servers' = blacklisted_servers \ {bl[i] : i \in 1..Len(bl)}
            /\ update(net, interface, blacklisted_servers \ {bl[i] : i \in 1..Len(bl)},
                      whitelisted_servers, whitelist_only, server_host, server_port)
            /\ ban_dialog' = FALSE
       ELSE /\ log' = << >>
            /\ UNCHANGED <<blacklisted_servers, dialogvars, ban_dialog>>
    /\ act' = Act("on_clear_blacklist", None, confirm)
    /\ UNCHANGED <<net, interface, whitelisted_servers, whitelist_only, locked, proxyvars>>

\* NetworkChoiceLayout.on_clear_blacklist(); `confirm` is the user's answer to
\* the question, `bl` the list the set was copied to.  Returning True closes
\* the ban-list dialog.
on_clear_blacklist(confirm, bl) ==
    /\ bl \in Orders(blacklisted_servers)
    /\ IF confirm
       THEN /\ log' = [i \in 1..Len(bl) |-> Call_set_blacklisted(bl[i], FALSE, i = Len(bl))]
            /\ blacklisted_servers' = blacklisted_servers \ {bl[i] : i \in 1..Len(bl)}
            /\ update(net, interface, blacklisted_servers \ {bl[i] : i \in 1..Len(bl)},
                      whitelisted_servers, whitelist_only, server_host, server_port)
            /\ ban_dialog' = FALSE
       ELSE /\ log' = << >>
            /\ UNCHANGED <<blacklisted_servers, dialogvars, ban_dialog>>
    /\ act' = Act("on_clear_blacklist", None, confirm)
    /\ UNCHANGED <<net, interface, whitelisted_servers, whitelist_only, locked, proxyvars>>

\* "Clear ban list" button of the ban-list dialog
clear_clicked(confirm, bl) ==
    /\ ban_dialog
    /\ on_clear_blacklist(confirm, bl)

\* The ban-list dialog's Close button
close_ban_dialog ==
    /\ ban_dialog
    /\ ban_dialog' = FALSE
    /\ act' = Act("close_ban_dialog", None, FALSE)
    /\ log' = << >>
    /\ UNCHANGED <<netvars, locked, dialogvars, proxyvars>>

(***************************************************************************)
(* The refresh path                                                        *)
(***************************************************************************)
\* What is observed when refresh r executes.
Executed(r) ==
    /\ gap' = [gap EXCEPT ![r] = Min(@, since[r])]
    /\ since' = [since EXCEPT ![r] = 0]
    /\ runs' = [runs EXCEPT ![r] = Min(@ + 1, 2)]

Remember(h, x) == IF Len(h) < MaxHist THEN Append(h, x) ELSE Append(Tail(h), x)

\* on_network running the refresh itself, in the thread that delivers the event
on_network_refreshes ==
    /\ pending < MaxPending
    /\ pending' = pending + 1
    /\ unserved' = TRUE
    /\ on_update
    /\ UNCHANGED <<steps, rl, jl, since, gap, runs, hist, tdvars, chainvars>>

\* NetworkDialog.on_network: a background event (status, interfaces,
\* blockchain_updated), possibly in the network thread; it only emits
\* network_updated_signal, which queues a call of on_update.
on_network ==
    /\ pending < MaxPending
    /\ pending' = pending + 1
    /\ unserved' = TRUE
    /\ UNCHANGED <<corevars, steps, rl, jl, since, gap, runs, hist, tdvars, chainvars>>

\* on_update without its decorator
on_update_call_unlimited == [st |-> rl, run |-> TRUE]

\* on_update with a limiter that drops the calls it cannot execute at once
on_update_call_dropping ==
    IF RateLimitedCall(rl, on_update_rate).run
    THEN RateLimitedCall(rl, on_update_rate)
    ELSE [st |-> rl, run |-> FALSE]

\* @rate_limited(0.333) def on_update: a call of the decorated method
on_update_call == RateLimitedCall(rl, on_update_rate)

\* The GUI thread takes one queued network_updated_signal and calls on_update.
network_updated ==
    /\ pending > 0
    /\ pending' = pending - 1
    /\ rl' = on_update_call.st
    /\ IF on_update_call.run
       THEN /\ on_update
            /\ Executed("on_update")
            /\ hist' = <<IF since["on_update"] >= on_update_rate
                         THEN "immediate" ELSE "early">>
            /\ unserved' = FALSE
       ELSE /\ hist' = Remember(hist, "coalesced")
            /\ UNCHANGED <<corevars, since, gap, runs, unserved>>
    /\ UNCHANGED <<steps, jl, tdvars, chainvars>>

\* The limiter's timer fires: the deferred on_update executes.
on_update_timer ==
    /\ rl.armed /\ rl.left = 0
    /\ rl' = RateLimitedFired(rl)
    /\ on_update
    /\ Executed("on_update")
    /\ hist' = Remember(hist, "trailing")
    /\ unserved' = FALSE
    /\ UNCHANGED <<steps, pending, jl, tdvars, chainvars>>

\* @rate_limited(1.0, classlevel=True, ts_after=True) def update: a call of
\* the decorated SlpSearchJobListWidget.update
jobs_update_call == RateLimitedCall(jl, jobs_update_rate)

\* SlpSearchJobListWidget.update is called (a job was added, changed or fetched).
jobs_update_invoked ==
    /\ jl' = jobs_update_call.st
    /\ IF jobs_update_call.run
       THEN Executed("jobs_update")
       ELSE UNCHANGED <<since, gap, runs>>
    /\ UNCHANGED <<corevars, steps, pending, rl, hist, unserved, tdvars, chainvars>>

\* The job-list limiter's timer fires: the deferred update executes.
jobs_update_timer ==
    /\ jl.armed /\ jl.left = 0
    /\ jl' = RateLimitedFired(jl)
    /\ Executed("jobs_update")
    /\ UNCHANGED <<corevars, steps, pending, rl, hist, unserved, tdvars, chainvars>>

\* TickMs pass.
tick ==
    /\ rl' = RateLimitedTick(rl, on_update_rate, TickMs)
    /\ jl' = RateLimitedTick(jl, jobs_update_rate, TickMs)
    /\ since' = [r \in Refreshes |-> Min(since[r] + TickMs, RateOf(r))]
    /\ UNCHANGED <<corevars, steps, pending, gap, runs, hist, unserved, tdvars, chainvars>>

(***************************************************************************)
(* TorDetector                                                             *)
(***************************************************************************)
\* TorDetector.start(): a fresh stopQ replaces the old one, then
\* QThread.start(), which does nothing for a thread that is running.
TorDetector_start ==
    /\ stopQ < MaxSessions
    /\ stopQ' = stopQ + 1
    /\ td_pc' = IF td_pc = "idle" THEN "probe" ELSE td_pc
    /\ td_stopping' = FALSE
    /\ td_rounds' = 0
    /\ UNCHANGED <<queues, td_waitq, td_signals>>

\* TorDetector.stop(): if self.isRunning(): self.stopQ.put(None)
TorDetector_stop ==
    /\ IF td_pc # "idle"
       THEN /\ queues' = [queues EXCEPT ![stopQ] = @ + 1]
            /\ td_stopping' = TRUE
            /\ td_rounds' = 0
       ELSE UNCHANGED <<queues, td_stopping, td_rounds>>
    /\ UNCHANGED <<td_pc, stopQ, td_waitq, td_signals>>

\* ProxyTab.showEvent: the proxy tab appears
ProxyTab_showEvent ==
    /\ ~proxy_tab_shown
    /\ proxy_tab_shown' = TRUE
    /\ TorDetector_start
    /\ UNCHANGED <<corevars, steps, ratevars, chainvars>>

\* ProxyTab.hideEvent: the proxy tab disappears
ProxyTab_hideEvent ==
    /\ proxy_tab_shown
    /\ proxy_tab_shown' = FALSE
    /\ TorDetector_stop
    /\ UNCHANGED <<corevars, steps, ratevars, chainvars>>

\* TorDetector.run, one round: the ports are probed, found_proxy is emitted
\* with the port found or None, and self.stopQ.get(timeout=10.0) is entered on
\* the queue self.stopQ is at that moment.
TorDetector_run_probe(found) ==
    /\ td_pc = "probe"
    /\ Len(td_signals) < MaxSignals
    /\ td_signals' = Append(td_signals, found)
    /\ td_pc' = "wait"
    /\ td_waitq' = stopQ
    /\ td_rounds' = IF td_stopping THEN Min(td_rounds + 1, 2) ELSE td_rounds
    /\ UNCHANGED <<corevars, steps, ratevars, chainvars, proxy_tab_shown, stopQ, queues, td_stopping>>

\* run in which a stop item makes the loop go on instead of returning
TorDetector_run_get_keeps_looping ==
    /\ td_pc = "wait" /\ queues[td_waitq] > 0
    /\ queues' = [queues EXCEPT ![td_waitq] = @ - 1]
    /\ td_pc' = "probe"
    /\ UNCHANGED <<corevars, steps, ratevars, chainvars, proxy_tab_shown, stopQ, td_waitq, td_signals,
                   td_stopping, td_rounds>>

\* TorDetector.run: stopQ.get returns an item
TorDetector_run_get ==
    /\ td_pc = "wait" /\ queues[td_waitq] > 0
    /\ queues' = [queues EXCEPT ![td_waitq] = @ - 1]
    /\ td_pc' = "got"
    /\ UNCHANGED <<corevars, steps, ratevars, chainvars, proxy_tab_shown, stopQ, td_waitq, td_signals,
                   td_stopping, td_rounds>>

\* TorDetector.run: stopQ.get times out (queue.Empty), the loop continues
TorDetector_run_timeout ==
    /\ td_pc = "wait" /\ queues[td_waitq] = 0
    /\ td_pc' = "probe"
    /\ UNCHANGED <<corevars, steps, ratevars, chainvars, proxy_tab_shown, stopQ, queues, td_waitq,
                   td_signals, td_stopping, td_rounds>>

\* TorDetector.run returns after the stop item: the thread ends
TorDetector_run_return ==
    /\ td_pc = "got"
    /\ td_pc' = "idle"
    /\ td_stopping' = FALSE
    /\ UNCHANGED <<corevars, steps, ratevars, chainvars, proxy_tab_shown, stopQ, queues, td_waitq,
                   td_signals, td_rounds>>

\* The GUI thread takes one queued found_proxy emission: suggest_proxy runs.
found_proxy_delivered ==
    /\ td_signals # << >>
    /\ suggest_proxy(Head(td_signals))
    /\ td_signals' = Tail(td_signals)
    /\ UNCHANGED <<steps, ratevars, chainvars, proxy_tab_shown, td_pc, stopQ, queues, td_waitq,
                   td_stopping, td_rounds>>

(***************************************************************************)
(* Specification                                                           *)
(***************************************************************************)
\* The number of handlers a behaviour runs.
MaxSteps == 4

Step(A) == steps < MaxSteps /\ A /\ steps' = steps + 1 /\ UNCHANGED <<ratevars, tdvars, chainvars>>

Next ==
    \/ Step(on_update)
    \/ \E s \in Servers : Step(network_switch(s))
    \/ \E h \in Hosts : Step(edit_host(h))
    \/ \E p \in Ports : Step(edit_port(p))
    \/ \E keep \in BOOLEAN : Step(editing_finished(keep))
    \/ Step(change_protocol)
    \/ Step(autoconnect_clicked)
    \/ Step(preferred_only_clicked)
    \/ \E item \in list_items : Step(menu_use_as_server(item))
    \/ \E item \in list_items : Step(menu_set_whitelisted(item))
    \/ \E item \in list_items : Step(menu_set_blacklisted(item))
    \/ \E server \in nodes : Step(menu_follow_server(server))
    \/ \E found \in TorPorts \cup {NoPort} : Step(suggest_proxy(found))
    \/ Step(tor_clicked)
    \/ Step(proxy_clicked)
    \/ Step(banlink_activated)
    \/ \E confirm \in BOOLEAN, bl \in Orders(blacklisted_servers) : Step(clear_clicked(confirm, bl))
    \/ Step(close_ban_dialog)

Spec == Init /\ [][Next]_vars

\* The hosts and protocol arguments change_server is called with: the catalog
\* hosts and one the catalog does not know; the two letters, none, and a
\* string that is no protocol letter.
ResolveHosts == Hosts \cup {"unlisted.example"}

ResolveProtocols == protocol_letters \cup {NoProtocol, "x"}

\* The dialog with ServerListWidget.set_server, on_view_blacklist and
\* on_clear_blacklist also called directly, without the context menu, the legend
\* link or the ban-list dialog's button having offered them.
NextDirect ==
    \/ Next
    \/ \E s \in Servers : Step(ServerList_set_server(s))
    \/ Step(on_view_blacklist)
    \/ \E confirm \in BOOLEAN, bl \in Orders(blacklisted_servers) :
          Step(on_clear_blacklist(confirm, bl))

SpecDirect == Init /\ [][NextDirect]_vars

\* The dialog as first shown, connected to a server the network chose itself.
InitAuto ==
    /\ Init
    /\ locked = {} /\ ~whitelist_only
    /\ net.auto_connect
    /\ interface = serialize_server("a.example", "50002", "s")

\* The two rate-limited refreshes under arbitrary sequences of events and
\* calls, with time passing.
NextRate ==
    \/ on_network
    \/ network_updated
    \/ on_update_timer
    \/ jobs_update_invoked
    \/ jobs_update_timer
    \/ tick

SpecRate == InitAuto /\ [][NextRate]_vars

\* The path from a background event to the dialog refresh, while the network
\* changes servers on its own.
NextBridge ==
    \/ on_network
    \/ network_updated
    \/ on_update_timer
    \/ tick
    \/ \E s \in Servers : Step(network_switch(s))

\* The GUI thread's event loop gets to every queued call and every due timer,
\* and time passes.
RateFairness ==
    /\ WF_vars(network_updated)
    /\ WF_vars(on_update_timer)
    /\ WF_vars(tick)

SpecRateFair == InitAuto /\ [][NextBridge]_vars /\ RateFairness

\* The host, port and SSL fields driven by change_server (called directly, as
\* server_changed would), the SSL check box and edits of the host field.
NextResolve ==
    \/ \E h \in ResolveHosts, d \in ResolveProtocols : Step(change_server(h, d))
    \/ Step(change_protocol)
    \/ \E h \in Hosts : Step(edit_host(h))
    \/ \E keep \in BOOLEAN : Step(editing_finished(keep))
    \/ Step(on_update)

SpecResolve == Init /\ [][NextResolve]_vars

\* The ban handler called for any server of the catalog, listed or not, beside
\* the server list's menu, the preferred-only check box and the refresh.
NextAdmin ==
    \/ \E s \in Servers, bl \in BOOLEAN : Step(set_blacklisted(s, bl))
    \/ \E item \in list_items : Step(menu_use_as_server(item))
    \/ Step(preferred_only_clicked)
    \/ Step(on_update)

SpecAdmin == Init /\ [][NextAdmin]_vars

\* The interfaces beside the active one that the chain view is driven with.
PeerServers ==
    {serialize_server("a.example", "50001", "t"), serialize_server("c.example", "50002", "s")}

PeerChoices ==
    {ps \in SUBSET {[server |-> srv, chain |-> k] : srv \in PeerServers, k \in ChainKeys} :
        \A q, r \in ps : q.server = r.server => q = r}

\* The network thread connects or drops interfaces and learns of headers that
\* put interfaces on other chains; the dialog learns of it with the next refresh.
blockchain_updated(ps, ci) ==
    /\ steps < MaxSteps /\ steps' = steps + 1
    /\ <<ps, ci>> # <<peers, chain_index>>
    /\ peers' = ps
    /\ chain_index' = ci
    /\ act' = Act("blockchain_updated", None, FALSE)
    /\ log' = << >>
    /\ UNCHANGED <<netvars, locked, dialogvars, proxyvars, ban_dialog, ratevars, tdvars>>

\* The chain view: the network's connections and chains change, the dialog
\* refreshes, and the user follows a listed server or toggles auto-connect.
NextChains ==
    \/ \E ps \in PeerChoices, ci \in ChainKeys : blockchain_updated(ps, ci)
    \/ Step(on_update)
    \/ \E server \in nodes : Step(menu_follow_server(server))
    \/ Step(autoconnect_clicked)

SpecChains == InitAuto /\ [][NextChains]_vars

\* ports = [9050, 9150] of TorDetector.run, as the port texts they are shown as
ProbePorts == {"9050", "9150"}

ProxyModes == {"SOCKS4", "SOCKS5", "HTTP"}

ProxyHosts == {"localhost", "127.0.0.1"}

\* The proxy tab: its two check boxes, its mode, host and port fields, and the
\* results the Tor detector delivers.
NextProxy ==
    \/ Step(proxy_clicked)
    \/ Step(tor_clicked)
    \/ \E found \in ProbePorts \cup {NoPort} : Step(suggest_proxy(found))
    \/ \E mode \in ProxyModes : Step(proxy_mode_changed(mode))
    \/ \E host \in ProxyHosts, port \in ProbePorts : Step(proxy_text_edited(host, port))
    \/ Step(proxy_editing_finished)

SpecProxy == InitAuto /\ [][NextProxy]_vars

\* The SSL check box with the handlers that send the server setting, the
\* refresh that enables or disables the box, and the Tor option.
NextSsl ==
    \/ Step(change_protocol)
    \/ Step(on_update)
    \/ Step(autoconnect_clicked)
    \/ \E h \in Hosts : Step(edit_host(h))
    \/ \E keep \in BOOLEAN : Step(editing_finished(keep))
    \/ \E found \in TorPorts \cup {NoPort} : Step(suggest_proxy(found))
    \/ Step(tor_clicked)

SpecSsl == Init /\ [][NextSsl]_vars

\* The proxy tab shown and hidden, with the detector thread running beside the
\* GUI thread.
NextTor ==
    \/ ProxyTab_showEvent
    \/ ProxyTab_hideEvent
    \/ \E found \in TorPorts \cup {NoPort} : TorDetector_run_probe(found)
    \/ TorDetector_run_get
    \/ TorDetector_run_timeout
    \/ TorDetector_run_return
    \/ found_proxy_delivered

SpecTor == InitAuto /\ [][NextTor]_vars

\* The detector thread is scheduled, and the GUI thread's event loop gets to
\* every queued found_proxy emission.
TorFairness ==
    /\ WF_vars(\E found \in TorPorts \cup {NoPort} : TorDetector_run_probe(found))
    /\ WF_vars(TorDetector_run_get)
    /\ WF_vars(TorDetector_run_timeout)
    /\ WF_vars(TorDetector_run_return)
    /\ WF_vars(found_proxy_delivered)

SpecTorFair == SpecTor /\ TorFairness

(***************************************************************************)
(* Properties                                                              *)
(***************************************************************************)
HostOf(server) == deserialize_server(server).host

\* The server a request names.
RequestServer(c) ==
    IF c.op = "set_parameters" THEN serialize_server(c.host, c.port, c.protocol)
    ELSE c.server

IsRequest(c) == c.op \in {"set_parameters", "switch_to_interface"}

\* The set_parameters calls of the last handler.
SetParameterCalls == {i \in DOMAIN log : log[i].op = "set_parameters"}

\* C1: a server in the banned set is never eligible: can_set_server is false
\* for it whatever the mode flags are, also when it is preferred as well.
C1_BannedNeverEligible ==
    \A s \in Servers : s \in blacklisted_servers => ~can_set_server(s)

\* C1 witness: a server both banned and preferred, with the server setting
\* modifiable and preferred-only off, so that only the ban makes it ineligible.
C1_Witness ==
    \E s \in Servers :
        /\ s \in blacklisted_servers /\ s \in whitelisted_servers
        /\ is_modifiable("server") /\ ~whitelist_only
        /\ ~can_set_server(s)

\* C2: with whitelistOnly on and the server setting modifiable, can_set_server(S)
\* is exactly (S preferred and S not banned), for every server and whatever
\* autoConnect, the Tor option and the host form are.
C2_WhitelistOnlyEligibility ==
    (whitelist_only /\ is_modifiable("server")) =>
        \A s \in Servers :
            can_set_server(s) <=> (s \in whitelisted_servers /\ s \notin blacklisted_servers)

\* C2 witness: preferred-only mode with autoConnect on and Tor off, in which a
\* preferred onion server is eligible and a non-preferred server is not.
C2_Witness ==
    /\ whitelist_only /\ is_modifiable("server") /\ ~tor_cb /\ net.auto_connect
    /\ \E s \in Servers : IsOnion(HostOf(s)) /\ can_set_server(s)
    /\ \E s \in Servers : s \notin blacklisted_servers /\ ~can_set_server(s)

\* C3 (as claimed): with the Tor option off an onion server is ineligible:
\* can_set_server is false for it, and "Use as server" on it issues no request.
C3_OnionNeedsTor ==
    /\ ~tor_cb => \A s \in Servers : IsOnion(HostOf(s)) => ~can_set_server(s)
    /\ (act.name = "choose_server" /\ IsOnion(HostOf(act.server)) /\ ~tor_cb)
           => SetParameterCalls = {}

\* C4 (as claimed): no set_parameters or switch_to_interface request of the
\* dialog names a server that is banned when the request is issued.
C4_NoRequestNamesBanned ==
    \A i \in DOMAIN log :
        IsRequest(log[i]) => RequestServer(log[i]) \notin blacklisted_servers

\* C4 (amended): a "Use as server" request from the server list is issued only
\* for a row whose server is not banned at that moment, and it carries that
\* row's host and port.
C4_ChosenServerNotBanned ==
    act.name = "choose_server" =>
        /\ act.server \notin blacklisted_servers
        /\ \A i \in SetParameterCalls :
              /\ log[i].host = HostOf(act.server)
              /\ log[i].port = deserialize_server(act.server).port

\* C4 witness: a server was chosen from the list while another server is banned.
C4_Witness ==
    /\ act.name = "choose_server"
    /\ SetParameterCalls # {}
    /\ blacklisted_servers # {}

\* C5 (as claimed): ServerListWidget.set_server invoked while can_set_server is
\* false changes nothing and issues no request.
C5_RefusedWhenNotSettable ==
    (act.name = "choose_server" /\ ~act.flag) =>
        /\ log = << >>
        /\ net = act.params

\* C6: "Use as server" on an eligible server issues exactly one set_parameters
\* request, with the chosen server's host and port, autoConnect off whatever it
\* was before, and the proxy the network layer had.
C6_ChooseIssuesOneRequest ==
    (act.name = "choose_server" /\ act.flag) =>
        /\ Len(log) = 1
        /\ log[1].op = "set_parameters"
        /\ log[1].host = HostOf(act.server)
        /\ log[1].port = deserialize_server(act.server).port
        /\ log[1].auto_connect = FALSE
        /\ log[1].proxy = act.params.proxy
        /\ net = ParamsOf(log[1])

\* C6 witness: an eligible server was chosen while autoConnect was on and a
\* proxy was configured.
C6_Witness ==
    /\ act.name = "choose_server" /\ act.flag
    /\ act.params.auto_connect
    /\ act.params.proxy # NoProxy
    /\ ~net.auto_connect

\* C7: switching whitelistOnly on while the active server is not preferred
\* issues exactly one set_parameters request in that handler, after the flag
\* was updated.
C7_WhitelistOnlyReapplies ==
    (/\ act.name = "set_whitelisted_only" /\ act.flag
     /\ act.iface # None /\ act.iface \notin whitelisted_servers) =>
        /\ Cardinality(SetParameterCalls) = 1
        /\ Len(log) = 2
        /\ log[1] = Call_set_whitelist_only(TRUE)
        /\ log[2].op = "set_parameters"
        /\ whitelist_only

\* C7 witness: whitelistOnly was switched on while the active server was not
\* preferred.
C7_Witness ==
    /\ act.name = "set_whitelisted_only" /\ act.flag
    /\ act.iface # None /\ act.iface \notin whitelisted_servers
    /\ Len(log) = 2

\* C8: banning the active server issues exactly one set_parameters request,
\* after the server was added to the banned set, and the active server is then
\* another one.
C8_BanActiveReselects ==
    (act.name = "set_blacklisted" /\ act.flag /\ act.server = act.iface) =>
        /\ Cardinality(SetParameterCalls) = 1
        /\ Len(log) = 2
        /\ log[1] = Call_set_blacklisted(act.server, TRUE, TRUE)
        /\ log[2].op = "set_parameters"
        /\ act.server \in blacklisted_servers
        /\ interface # act.server

\* C8 witness: the active server was banned.
C8_Witness ==
    /\ act.name = "set_blacklisted" /\ act.flag /\ act.server = act.iface
    /\ act.server \in blacklisted_servers

\* C9 (as claimed): banning a server that is not the active one leaves the
\* network layer's host, port, protocol, proxy and autoConnect as they were.
C9_BanOtherKeepsParameters ==
    (act.name = "set_blacklisted" /\ act.flag /\ act.server # act.iface) =>
        net = act.params

\* C10: a confirmed clearing of a ban list of K >= 1 servers makes exactly K
\* unban calls, one per banned server, of which only the last persists; the
\* banned set is then empty and the preferred set is as before.
C10_ClearBanList ==
    [][(/\ steps' = steps + 1
        /\ act'.name = "on_clear_blacklist" /\ act'.flag
        /\ blacklisted_servers # {}) =>
          /\ Len(log') = Cardinality(blacklisted_servers)
          /\ {log'[i].server : i \in DOMAIN log'} = blacklisted_servers
          /\ \A i \in DOMAIN log' :
                /\ log'[i].op = "server_set_blacklisted"
                /\ log'[i].flag = FALSE
                /\ log'[i].save <=> (i = Len(log'))
          /\ blacklisted_servers' = {}
          /\ whitelisted_servers' = whitelisted_servers]_vars

\* C10 witness: a ban list of two servers was cleared.
C10_Witness ==
    /\ act.name = "on_clear_blacklist" /\ act.flag
    /\ Len(log) = 2
    /\ blacklisted_servers = {}

\* C11 (as claimed): with no server banned, on_view_blacklist as well as a
\* direct on_clear_blacklist make no unban call and no persisted write, leave
\* the trust sets alone and report "list empty" instead of success.
C11_EmptyClearReportsEmpty ==
    [][(/\ steps' = steps + 1
        /\ act'.name \in {"on_view_blacklist", "on_clear_blacklist"}
        /\ blacklisted_servers = {}) =>
          /\ \A i \in DOMAIN log' : log'[i].op # "server_set_blacklisted"
          /\ blacklisted_servers' = {}
          /\ whitelisted_servers' = whitelisted_servers
          /\ log' = <<Call_show_error>>
          /\ ~act'.flag]_vars

\* The call a trust or mode handler makes first to the network object.
TrustMutation(a) ==
    CASE a.name = "set_blacklisted" -> Call_set_blacklisted(a.server, a.flag, TRUE)
      [] a.name = "set_whitelisted" -> Call_set_whitelisted(a.server, a.flag, TRUE)
      [] a.name = "set_whitelisted_only" -> Call_set_whitelist_only(a.flag)

\* C12: a ban/unban, set/unset preferred or whitelistOnly handler makes its
\* mutation and the re-application of the server in one step, mutation first
\* and exactly one set_parameters request after it; in the state it leaves,
\* the active server is eligible under the new trust state or that request
\* was issued.
C12_TrustChangeAtomicRecheck ==
    act.name \in {"set_blacklisted", "set_whitelisted", "set_whitelisted_only"} =>
        /\ Len(log) = 2
        /\ log[1] = TrustMutation(act)
        /\ log[2].op = "set_parameters"
        /\ net = ParamsOf(log[2])
        /\ \/ /\ interface # None
              /\ NetEligible(interface, blacklisted_servers, whitelisted_servers,
                             whitelist_only)
           \/ SetParameterCalls # {}

\* C12 witness: in whitelist-only mode the active server was removed from the
\* preferred set, and the network moved away from it.
C12_Witness ==
    /\ act.name = "set_whitelisted" /\ ~act.flag /\ act.server = act.iface
    /\ whitelist_only
    /\ interface # act.iface
    /\ SetParameterCalls # {}

\* C13: the dialog refresh run by on_update never executes twice within
\* 333 ms, and the job-list refresh never twice within 1000 ms, whatever the
\* sequence of events and calls.
C13_RefreshRateCeiling ==
    /\ gap["on_update"] >= 333
    /\ gap["jobs_update"] >= 1000

\* C13 witness: both refreshes executed twice, the second time from the
\* limiter's timer.
C13_Witness ==
    /\ runs["on_update"] = 2 /\ runs["jobs_update"] = 2
    /\ hist # << >> /\ hist[Len(hist)] = "trailing"

C15_StopObservedWithinOneRound ==
    /\ [](td_stopping => td_rounds <= 1)
    /\ (td_stopping ~> (td_pc = "idle" \/ proxy_tab_shown))

\* C15 witness: the stop arrived during a probe round, that round was
\* completed, and the thread has taken the stop item.
C15_Witness ==
    /\ td_stopping /\ td_rounds = 1 /\ td_pc = "got" /\ ~proxy_tab_shown

\* C16 (as claimed): a start() that follows a stop() leaves the detector with
\* a probe loop which the earlier stop request does not end: while the proxy
\* tab is shown the thread does not terminate.
C16_RestartSurvivesEarlierStop ==
    proxy_tab_shown => td_pc # "idle"

\* The handlers that end in NetworkChoiceLayout.update().
EndsInUpdate(a) ==
    \/ a.name \in {"on_update", "set_autoconnect", "set_whitelisted_only",
                    "set_blacklisted", "set_whitelisted", "choose_server", "follow_server"}
    \/ a.name = "on_clear_blacklist" /\ a.flag

\* C17: after a refresh the server list holds exactly the catalog hosts that
\* offer a port for the active protocol and are not onion hosts unless the Tor
\* option is on, each with that port.
C17_ListedHosts ==
    EndsInUpdate(act) =>
        /\ {item.host : item \in list_items} =
              {h \in Hosts : protocol \in DOMAIN Catalog[h] /\ (~IsOnion(h) \/ tor_cb)}
        /\ \A item \in list_items :
              /\ item.port = Catalog[item.host][protocol]
              /\ item.server = serialize_server(item.host, item.port, protocol)

\* C17 witness: a refresh with the Tor option on lists an onion host, and a
\* catalog host without a port for the active protocol is not listed.
C17_Witness ==
    /\ act.name = "on_update" /\ tor_cb
    /\ \E item \in list_items : IsOnion(item.host)
    /\ \E h \in Hosts : protocol \notin DOMAIN Catalog[h]
                          /\ h \notin {item.host : item \in list_items}

\* C18: a listed server is shown de-emphasized exactly when (whitelistOnly and
\* it is not preferred) or it is banned, whatever its host form and the Tor
\* option are.
C18_Deemphasized ==
    \A item \in list_items :
        item.light <=> \/ (whitelist_only /\ item.server \notin whitelisted_servers)
                       \/ item.server \in blacklisted_servers

\* C18 witness: with whitelistOnly off and the Tor option on, a listed onion
\* server that is preferred and banned is de-emphasized.
C18_Witness ==
    /\ ~whitelist_only /\ tor_cb
    /\ \E item \in list_items :
          /\ IsOnion(item.host)
          /\ item.server \in whitelisted_servers /\ item.server \in blacklisted_servers
          /\ item.light

\* C19: for every host and desired protocol, change_server settles on the
\* desired protocol and its port if the host offers it, otherwise on SSL and
\* its port if the host offers SSL, otherwise on the first protocol the host
\* offers; the result is an entry of the host's ports (the default ports for a
\* host the catalog does not know); change_protocol settles on the same
\* protocol and port for the same host and desired protocol; and the fields
\* the two handlers set are the resolved ones.
C19_ResolvePort ==
    /\ \A h \in ResolveHosts, d \in ResolveProtocols :
          LET pp == PortsOfHost(Catalog, h)
              r == change_server_resolve(h, d)
          IN  /\ r.protocol \in DOMAIN pp /\ r.port = pp[r.protocol]
              /\ (d \in protocol_letters /\ d \in DOMAIN pp) => r.protocol = d
              /\ (~(d \in protocol_letters /\ d \in DOMAIN pp) /\ "s" \in DOMAIN pp)
                     => r.protocol = "s"
              /\ d \in protocol_letters =>
                     /\ change_protocol_p(h, d = "s") = r.protocol
                     /\ pp[change_protocol_p(h, d = "s")] = r.port
    /\ act.name = "change_server" =>
          /\ server_host = act.server[1]
          /\ server_port = change_server_resolve(act.server[1], act.server[2]).port
          /\ ssl_cb = (change_server_resolve(act.server[1], act.server[2]).protocol = "s")
    /\ act.name = "change_protocol" =>
          LET d == IF act.flag THEN "s" ELSE "t"
          IN  /\ protocol = change_server_resolve(server_host, d).protocol
              /\ server_port = change_server_resolve(server_host, d).port

\* C19 witness: change_server was asked for TCP on a host that offers SSL
\* only and fell back to SSL and its port.
C19_Witness ==
    /\ act.name = "change_server"
    /\ act.server = <<"c.example", "t">>
    /\ ssl_cb /\ server_port = "50002"

C21_OnNetworkOnlyEmits ==
    [][pending' = pending + 1 =>
          UNCHANGED <<corevars, steps, rl, jl, since, gap, runs, hist, tdvars, chainvars>>]_vars

\* C21 witness: the network moved to another server, the event was delivered
\* and its refresh is queued, and the host field still shows the old server.
C21_Witness ==
    /\ pending > 0 /\ unserved
    /\ act.name = "network_switch"
    /\ server_host # net.host

\* C22: while whitelist-only is off, set_whitelisted(S, flag) changes
\* can_set_server for no server; it still makes the mutation with save = True
\* and then issues exactly one set_parameters request.
C22_PreferredIrrelevantWithoutWhitelistOnly ==
    [][(steps' = steps + 1 /\ act'.name = "set_whitelisted" /\ ~whitelist_only) =>
          /\ \A s \in Servers : can_set_server(s)' = can_set_server(s)
          /\ Len(log') = 2
          /\ log'[1] = Call_set_whitelisted(act'.server, act'.flag, TRUE)
          /\ log'[2].op = "set_parameters"
          /\ \A k \in DOMAIN log' : IsRequest(log'[k]) => k = 2]_vars

\* C22 witness: with whitelist-only off the active server was removed from the
\* preferred set and can still be chosen.
C22_Witness ==
    /\ act.name = "set_whitelisted" /\ ~act.flag /\ act.server = act.iface
    /\ ~whitelist_only
    /\ act.server \notin whitelisted_servers
    /\ can_set_server(act.server)

\* C23: set_blacklisted(S, flag) updates the banned set with save = True for
\* every server S, and when S is an onion host while Tor is off, or is not
\* preferred in whitelist-only mode, or the server setting is locked, choosing
\* that same server is refused (can_set_server is false for it when the ban
\* handler is invoked).
C23_BanUngatedChooseRefused ==
    [][(steps' = steps + 1 /\ act'.name = "set_blacklisted") =>
          /\ log'[1] = Call_set_blacklisted(act'.server, act'.flag, TRUE)
          /\ (act'.server \in blacklisted_servers') = act'.flag
          /\ (\/ IsOnion(HostOf(act'.server)) /\ ~tor_cb
              \/ whitelist_only /\ act'.server \notin whitelisted_servers
              \/ ~is_modifiable("server"))
                => ~can_set_server(act'.server)]_vars

\* C24: a click on the auto-connect check box issues one set_parameters
\* request with auto_connect as checked, and with the host, port, protocol and
\* proxy the network had when the click arrived.
C24_AutoConnectChangesOnlyAutoConnect ==
    act.name = "set_autoconnect" =>
        /\ Len(log) = 1
        /\ log[1].op = "set_parameters"
        /\ log[1].auto_connect = act.flag
        /\ log[1].host = act.params.host
        /\ log[1].port = act.params.port
        /\ log[1].protocol = act.params.protocol
        /\ log[1].proxy = act.params.proxy

\* C25: follow_server(server) calls switch_to_interface(server) first and then
\* issues one set_parameters request whose host, port and protocol are the
\* parts of the server string and whose proxy and auto_connect are those the
\* network reports; auto-connect stays as it was.
C25_FollowServerKeepsAutoConnect ==
    act.name = "follow_server" =>
        /\ Len(log) = 2
        /\ log[1] = Call_switch_to_interface(act.server)
        /\ log[2].op = "set_parameters"
        /\ serialize_server(log[2].host, log[2].port, log[2].protocol) = act.server
        /\ log[2].proxy = act.params.proxy
        /\ log[2].auto_connect = act.params.auto_connect
        /\ net.auto_connect = act.params.auto_connect
        /\ net.proxy = act.params.proxy

\* C25 witness: in auto-connect mode a connected server other than the one the
\* parameters named was followed, and auto-connect is still on.
C25_Witness ==
    /\ act.name = "follow_server"
    /\ act.params.auto_connect /\ net.auto_connect
    /\ ServerOf(act.params) # act.server
    /\ ServerOf(net) = act.server

\* C26: after every refresh the split message is non-empty exactly when the
\* network reports more than one chain, and then names the followed chain, its
\* base height and its branch size; the node list shows one header per chain
\* (name@base height, height) with the chain's interfaces below it exactly when
\* there is more than one chain, and otherwise shows the interfaces flat.
C26_SplitAlertAndChainHeaders ==
    EndsInUpdate(act) =>
        LET chains == get_blockchains(interface, peers, chain_index)
            chain == Blockchains[chain_index]
            split == Cardinality(DOMAIN chains) > 1
        IN  /\ (split_label # << >>) <=> split
            /\ split =>
                  /\ split_label[6] = chain.name
                  /\ split_label[2] = ToString(chain.base_height)
                  /\ split_label[8] = ToString(chain.branch_size)
                  /\ \A x \in node_tree : x.role = 1
                  /\ \A k \in DOMAIN chains : \E x \in node_tree :
                        /\ x.text = <<Blockchains[k].name, "@",
                                      ToString(Blockchains[k].base_height)>>
                        /\ x.tip = ToString(Blockchains[k].height)
                        /\ {y.server : y \in x.children} = chains[k]
                  /\ Cardinality(node_tree) = Cardinality(DOMAIN chains)
            /\ ~split =>
                  /\ \A x \in node_tree : x.role = 0
                  /\ {x.server : x \in node_tree} = UNION {chains[k] : k \in DOMAIN chains}

\* C26 witness: a refresh ran while the active interface was on the fork and
\* another interface on the main chain: the message is shown and the node list
\* has two headers.
C26_Witness ==
    /\ act.name = "on_update"
    /\ chain_index = 100
    /\ split_label # << >>
    /\ Cardinality(node_tree) = 2
    /\ \E x \in node_tree : x.role = 1 /\ x.children # {}

\* C27: in every state the proxy tab's actions lead to, a checked Tor box
\* implies a checked proxy box and network proxy parameters of SOCKS5 at
\* 127.0.0.1 on the Tor port the detector reported last.
C27_TorForcesProxy ==
    tor_cb =>
        /\ proxy_cb
        /\ net.proxy = [mode |-> "socks5", host |-> "127.0.0.1", port |-> tor_proxy,
                        user |-> NoUser, password |-> NoUser]

\* C28: from a state in which the network's protocol is SSL, the Tor box is
\* unchecked and the host is no onion host, a handler that leaves the Tor box
\* unchecked issues no set_parameters request with protocol TCP for a host
\* that is no onion host.
C28_SslOnlyDisabledWithTor ==
    [][(net.protocol = "s" /\ ~tor_cb /\ ~IsOnion(net.host) /\ ~tor_cb') =>
          \A k \in DOMAIN log' :
              (log'[k].op = "set_parameters" /\ log'[k].protocol = "t")
                  => IsOnion(log'[k].host)]_vars

\* C29: when the user declines the question of on_clear_blacklist, the handler
\* returns False, makes no call to the network object (nothing is unbanned or
\* saved), leaves the banned set, the preferred set, the whitelist-only flag
\* and the network parameters as they were and leaves the ban-list dialog
\* open; the dialog is closed by this handler only when it returns True.
C29_DeclinedClearChangesNothing ==
    [][(steps' = steps + 1 /\ act'.name = "on_clear_blacklist") =>
          /\ ~act'.flag =>
                /\ log' = << >>
                /\ UNCHANGED <<blacklisted_servers, whitelisted_servers, whitelist_only,
                               net, interface>>
                /\ ban_dialog' = ban_dialog
          /\ (ban_dialog /\ ~ban_dialog') => act'.flag]_vars

\* C29 witness: with a server banned and the ban-list dialog open, the user
\* pressed "Clear ban list" and declined; the dialog is still open.
C29_Witness ==
    /\ act.name = "on_clear_blacklist" /\ ~act.flag
    /\ blacklisted_servers # {}
    /\ ban_dialog
    /\ log = << >>

\* C30: a refresh that runs while the host or the port field has the focus
\* leaves the text of both fields as it is; a refresh that runs while neither
\* has the focus sets them to the network's host and port.
C30_RefreshKeepsFocusedEdit ==
    [][(steps' = steps + 1 /\ act'.name = "on_update") =>
          IF focus # "none"
          THEN UNCHANGED <<server_host, server_port>>
          ELSE server_host' = net.host /\ server_port' = net.port]_vars

\* C30 witness: the user typed another host into the focused host field, a
\* refresh ran, and the field still shows the typed host.
C30_Witness ==
    /\ act.name = "on_update"
    /\ focus = "host"
    /\ server_host # net.host

\* C31: after every refresh the host and port fields are enabled exactly when
\* the server setting is modifiable, auto-connect is off and whitelist-only is
\* off; when the server setting is not modifiable the auto-connect box is
\* disabled as well.
C31_FieldsEditableIffManual ==
    EndsInUpdate(act) =>
        /\ fields_enabled <=>
              (is_modifiable("server") /\ ~net.auto_connect /\ ~whitelist_only)
        /\ fields_enabled <=>
              (is_modifiable("server") /\ ~autoconnect_cb /\ ~preferred_only_cb)
        /\ ~is_modifiable("server") => ~autoconnect_enabled

\* C31 witness: the user switched whitelist-only on with auto-connect off and
\* the server setting modifiable; the refresh disabled the two fields.
C31_Witness ==
    /\ act.name = "set_whitelisted_only" /\ act.flag
    /\ is_modifiable("server") /\ ~net.auto_connect /\ whitelist_only
    /\ ~fields_enabled
    /\ autoconnect_enabled

\* C32: the menu of a row whose Banned flag is set has "Unban server" as its
\* only enabled entry; the menu of any other row has the preferred entry that
\* sets the opposite of the row's Preferred flag, and "Ban server".  So a
\* set_whitelisted made through the list never names a banned server and
\* always sets the opposite of the server's current preferred state, and a
\* server chosen through the list is not banned.
C32_BannedRowOffersOnlyUnban ==
    /\ [](\A item \in list_items :
             IF HasFlag(item.flagval, ServerFlag_Banned)
             THEN create_menu(item) = {"Unban server"}
             ELSE /\ "Ban server" \in create_menu(item)
                  /\ create_menu(item) \cap PreferredEntries =
                        {IF HasFlag(item.flagval, ServerFlag_Preferred)
                         THEN "Remove from preferred" ELSE "Add to preferred"})
    /\ [][(steps' = steps + 1 /\ act'.name = "set_whitelisted") =>
             /\ act'.server \notin blacklisted_servers
             /\ act'.flag = (act'.server \notin whitelisted_servers)]_vars
    /\ [][(steps' = steps + 1 /\ act'.name = "choose_server") =>
             act'.server \notin blacklisted_servers]_vars
    /\ [][(steps' = steps + 1 /\ act'.name = "set_blacklisted") =>
             act'.flag = (act'.server \notin blacklisted_servers)]_vars

\* C32 witness: a preferred server was banned through the list; its row shows
\* both flags and its menu has only "Unban server".
C32_Witness ==
    /\ act.name = "set_blacklisted" /\ act.flag
    /\ \E item \in list_items :
          /\ item.server = act.server
          /\ item.flagval = ServerFlag_Banned + ServerFlag_Preferred
          /\ create_menu(item) = {"Unban server"}

====
